---- MODULE Spec2Model ----
(***************************************************************************)
(* Schedule projection engine of the Mission Control dashboard             *)
(* (src/src/App.tsx): per-job run projection with noisy-schedule capping,  *)
(* the agenda builder and the week builder.                                *)
(*                                                                         *)
(* Instants are integers in milliseconds, as in the source.  The origin 0  *)
(* is 1970-01-01T00:00:00Z (a Thursday); the model keeps every instant in  *)
(* the weeks around the origin so that the arithmetic stays inside 32-bit  *)
(* integers.                                                               *)
(***************************************************************************)
EXTENDS Integers, Sequences, FiniteSets, TLC

VARIABLES
    jobs,          \* useState<CronJob[]>            (App.tsx:649)
    query,         \* useState<string>               (App.tsx:653)
    enabledOnly,   \* useState<boolean>              (App.tsx:654)
    cronView,      \* useState<CronView>             (App.tsx:656)
    filteredJobs,  \* useMemo                        (App.tsx:716)
    agenda,        \* useMemo                        (App.tsx:728)
    week,          \* useMemo                        (App.tsx:747)
    clock,         \* the wall clock read by Date.now()
    localZone,     \* the offset rule of the process's local time zone
    evalFault,     \* how the cron evaluator misbehaves, if it does
    phase,         \* "loading" until the mount effect has set the jobs
    probe,         \* arguments of one call of upcomingRunsForJob
    out,           \* what that call returned
    heap           \* the objects the builders read and write, when the
                   \* builders are followed statement by statement

vars == <<jobs, query, enabledOnly, cronView, filteredJobs, agenda, week,
          clock, phase, localZone, evalFault, probe, out, heap>>

appVars == <<jobs, query, enabledOnly, cronView, filteredJobs, agenda, week, clock>>

(***************************************************************************)
(* Time units and policy constants                                         *)
(***************************************************************************)
SECOND == 1000
MINUTE == 60 * 1000
HOUR   == 60 * 60 * 1000
DAY    == 24 * 60 * 60 * 1000

AGENDA_LOOKAHEAD_DAYS   == 7
MAX_RUNS_PER_JOB        == 20
MAX_RUNS_PER_NOISY_JOB  == 7
MAX_ITERATIONS_PER_JOB  == 500
MAX_AGENDA_ITEMS_TOTAL  == 250
WEEK_STARTS_ON          == 1
NOISY_INTERVAL_MS       == 2 * 60 * 60 * 1000

Min(a, b) == IF a <= b THEN a ELSE b

\* A loop "for k = lo .. hi: acc = Body(acc, k)" that is left early once
\* Break(acc) holds.  The range is halved so that long loops need little
\* nesting.
RECURSIVE ForRange(_, _, _, _, _)
ForRange(Body(_, _), Break(_), acc, lo, hi) ==
    IF lo > hi THEN acc
    ELSE IF lo = hi THEN Body(acc, lo)
    ELSE LET mid   == (lo + hi) \div 2
             first == ForRange(Body, Break, acc, lo, mid)
         IN  IF Break(first) THEN first ELSE ForRange(Body, Break, first, mid + 1, hi)

\* A loop over the indices of a sequence that builds a sequence and has no break.
ForEach(Body(_, _), s) ==
    ForRange(Body, LAMBDA acc : Len(acc) < 0, <<>>, 1, Len(s))

SeqMin(s) == ForRange(LAMBDA m, k : Min(m, s[k]), LAMBDA m : m > s[1], s[1], 2, Len(s))

SetMin(S) == CHOOSE x \in S : \A y \in S : x <= y

Range(s) == { s[i] : i \in 1..Len(s) }

(***************************************************************************)
(* Time zones.  A zone rule is its UTC offset before and from one          *)
(* transition instant; a zone without daylight saving has both equal.      *)
(***************************************************************************)
FixedZone(off) == [before |-> off, after |-> off, at |-> 0]

OffsetAt(zone, epochMs) == IF epochMs < zone.at THEN zone.before ELSE zone.after

\* The zone a timeZone option selects; undefined ("" here) is the local zone.
ZoneOf(timeZone) ==
    CASE timeZone = ""                -> localZone
      [] timeZone = "UTC"             -> FixedZone(0)
      [] timeZone = "Asia/Tokyo"      -> FixedZone(9 * HOUR)

\* Civil date <<year, month, day>> of a count of days since 1970-01-01.
CivilFromDays(z0) ==
    LET z   == z0 + 719468
        era == z \div 146097
        doe == z - era * 146097
        yoe == (doe - doe \div 1460 + doe \div 36524 - doe \div 146096) \div 365
        doy == doe - (365 * yoe + yoe \div 4 - yoe \div 100)
        mp  == (5 * doy + 2) \div 153
        d   == doy - (153 * mp + 2) \div 5 + 1
        m   == IF mp < 10 THEN mp + 3 ELSE mp - 9
        y   == yoe + era * 400 + (IF m <= 2 THEN 1 ELSE 0)
    IN  <<y, m, d>>

LocalDayNumber(epochMs, zone) == (epochMs + OffsetAt(zone, epochMs)) \div DAY

\* dateKey: the calendar date of the instant in the zone, "YYYY-MM-DD";
\* the three fields are kept as numbers, year first.
dateKey(epochMs, timeZone) == CivilFromDays(LocalDayNumber(epochMs, ZoneOf(timeZone)))

\* a.localeCompare(b) < 0 on two date keys
KeyLess(a, b) ==
    \/ a[1] < b[1]
    \/ a[1] = b[1] /\ a[2] < b[2]
    \/ a[1] = b[1] /\ a[2] = b[2] /\ a[3] < b[3]

(***************************************************************************)
(* Jobs.  An optional string that is absent is "" (the source only tests   *)
(* such fields for truthiness); an absent schedule is the empty sequence   *)
(* and a present one a one-element sequence.                               *)
(***************************************************************************)
Schedule(kind, expr, cron, tz, timezone) ==
    <<[kind |-> kind, expr |-> expr, cron |-> cron, tz |-> tz, timezone |-> timezone]>>

NoSchedule == <<>>

Job(name, agentId, enabled, schedule) ==
    [name |-> name, agentId |-> agentId, enabled |-> enabled, schedule |-> schedule]

\* a || b on strings
OrElse(a, b) == IF a # "" THEN a ELSE b

\* Mutant: the kind of the schedule is not looked at.
getCronExprAnyKind(schedule) ==
    IF Len(schedule) = 0
    THEN ""
    ELSE OrElse(schedule[1].expr, OrElse(schedule[1].cron, ""))

getCronExpr(schedule) ==
    IF Len(schedule) = 0 \/ schedule[1].kind # "cron"
    THEN ""
    ELSE OrElse(schedule[1].expr, OrElse(schedule[1].cron, ""))

getCronTz(schedule) ==
    IF Len(schedule) = 0 \/ schedule[1].kind # "cron"
    THEN ""
    ELSE OrElse(schedule[1].tz, OrElse(schedule[1].timezone, ""))

(***************************************************************************)
(* The cron evaluator (the Cron class the projector constructs).  A        *)
(* 5-part expression fires on whole minutes of the zone's wall clock: the  *)
(* pattern of an expression is a wall-clock period and, inside each        *)
(* period, `count` fire times `gap` apart starting at the period's start.  *)
(***************************************************************************)
Pattern(period, count, gap, dows) ==
    [valid |-> TRUE, period |-> period, count |-> count, gap |-> gap, dows |-> dows]

EveryDay == 0..6

CronPattern(expr) ==
    CASE expr = "*/5 * * * *"     -> Pattern(5 * MINUTE, 1, 0, EveryDay)
      [] expr = "*/30 * * * *"    -> Pattern(30 * MINUTE, 1, 0, EveryDay)
      [] expr = "0 * * * *"       -> Pattern(HOUR, 1, 0, EveryDay)
      [] expr = "0 */2 * * *"     -> Pattern(2 * HOUR, 1, 0, EveryDay)
      [] expr = "0 */3 * * *"     -> Pattern(3 * HOUR, 1, 0, EveryDay)
      [] expr = "0 */8 * * *"     -> Pattern(8 * HOUR, 1, 0, EveryDay)
      [] expr = "0 0 * * *"       -> Pattern(DAY, 1, 0, EveryDay)
      [] expr = "0 0,1,2 * * *"   -> Pattern(DAY, 3, HOUR, EveryDay)
      [] expr = "0 0-4 * * 1-5"   -> Pattern(DAY, 5, HOUR, 1..5)
      [] OTHER                    ->
           [valid |-> FALSE, period |-> 0, count |-> 0, gap |-> 0, dows |-> {}]

\* getDay() of a wall-clock reading: 0 = Sunday; day 0 of the origin is a Thursday.
WeekdayOfWall(w) == (w \div DAY + 4) % 7

\* The instant t is a fire time: its wall-clock reading in the zone matches.
Fires(pattern, zone, t) ==
    LET w == t + OffsetAt(zone, t)
    IN  /\ WeekdayOfWall(w) \in pattern.dows
        /\ \E j \in 0..(pattern.count - 1) :
              /\ (w - j * pattern.gap) % pattern.period = 0
              /\ (w - j * pattern.gap) \div DAY = w \div DAY

\* How many periods ahead of the cursor the next fire time can lie.
PeriodsAhead(pattern) == IF pattern.dows = EveryDay THEN 2 ELSE 8

\* Candidate fire times around the cursor, under either offset of the zone.
FireCandidates(pattern, zone, cursorMs) ==
    { ((cursorMs + off) \div pattern.period + n) * pattern.period + j * pattern.gap - off :
        off \in {zone.before, zone.after}, n \in 0..PeriodsAhead(pattern),
        j \in 0..(pattern.count - 1) }

NoFault == [expr |-> "", mode |-> "ok", at |-> 0]

\* The fire times of the pattern after the cursor.
FiresAfter(pattern, zone, cursorMs) ==
    { t \in FireCandidates(pattern, zone, cursorMs) : t > cursorMs /\ Fires(pattern, zone, t) }

EarliestOf(next) ==
    IF next = {} THEN [kind |-> "none", ms |-> 0]
    ELSE [kind |-> "run", ms |-> SetMin(next)]

\* cron.nextRun(cursor), call number callNo on this Cron object:
\* the first fire time strictly after the cursor, "none" (null), or "throw".
\* An evaluator that does not honour its contract for the expression
\* fault.expr: it throws or answers null on call number fault.at ("throw",
\* "none"), answers the instant fault.at on every call ("stuck"), or answers
\* on every call the instant fault.at milliseconds after the cursor ("dense").
nextRun(fault, expr, zone, cursorMs, callNo) ==
    IF fault.expr = expr /\ fault.at = callNo /\ fault.mode \in {"throw", "none"}
    THEN [kind |-> fault.mode, ms |-> 0]
    ELSE IF fault.expr = expr /\ fault.mode = "stuck"
    THEN [kind |-> "run", ms |-> fault.at]
    ELSE IF fault.expr = expr /\ fault.mode = "dense"
    THEN [kind |-> "run", ms |-> cursorMs + fault.at]
    ELSE EarliestOf(FiresAfter(CronPattern(expr), zone, cursorMs))

(***************************************************************************)
(* Per-job projector: upcomingRunsForJob                                   *)
(***************************************************************************)
\* Mutant: the cursor is put on the run itself less a second.
AdvanceCursorBehind(nextMs) == nextMs - SECOND

\* cursor = new Date(nextMs + 1000)
AdvanceCursor(nextMs) == nextMs + SECOND

\* if (nextMs > endAtMs) break
PastEnd(nextMs, endAtMs) == nextMs > endAtMs

\* Mutant: the collection is never cut short.
OvershootNever(runs) == FALSE

\* if (runs.length > MAX_RUNS_PER_JOB * 6) break
Overshoot(runs) == Len(runs) > MAX_RUNS_PER_JOB * 6

\* The rest of an iteration, `next` being what cron.nextRun(cursor) answered.
CollectNext(endAtMs, st, next) ==
    LET asked == Append(st.asked, st.cursor)
    IN  CASE next.kind = "throw" ->
               [st EXCEPT !.asked = asked, !.threw = TRUE, !.stop = TRUE]
          [] next.kind = "none"  -> [st EXCEPT !.asked = asked, !.stop = TRUE]
          [] OTHER ->
               IF PastEnd(next.ms, endAtMs) THEN [st EXCEPT !.asked = asked, !.stop = TRUE]
               ELSE LET runs == Append(st.runs, next.ms)
                    IN  [st EXCEPT !.asked = asked,
                                   !.runs = runs,
                                   !.cursor = AdvanceCursor(next.ms),
                                   !.stop = Overshoot(runs)]

\* One iteration of the collection loop, iteration i (from 0).  st.runs are
\* the instants pushed so far, st.cursor the next cursor, st.asked the cursors
\* the evaluator was called with, st.threw whether a call threw, st.stop
\* whether the loop has been left.
CollectStep(fault, expr, zone, endAtMs, st, i) ==
    IF st.stop THEN st
    ELSE CollectNext(endAtMs, st, nextRun(fault, expr, zone, st.cursor, i + 1))

\* Mutant: the cursor is declared outside the function and set only when it
\* holds nothing, so that a call goes on from where the call before it stopped.
FirstCursorResumed(startAtMs) ==
    IF heap.cursor # <<>> THEN heap.cursor[1] ELSE startAtMs

\* let cursor = new Date(startAtMs)
FirstCursor(startAtMs) == startAtMs

\* Mutant: a loop that goes on after the overshoot and after
\* MAX_ITERATIONS_PER_JOB iterations.
KeepGoing(st, next) ==
    IF next.stop /\ Len(next.runs) > Len(st.runs) THEN [next EXCEPT !.stop = FALSE] ELSE next

CollectRunsUnguarded(fault, expr, zone, startAtMs, endAtMs) ==
    ForRange(LAMBDA st, i : KeepGoing(st, CollectStep(fault, expr, zone, endAtMs, st, i)),
             LAMBDA st : st.stop,
             [runs |-> <<>>, cursor |-> startAtMs, asked |-> <<>>,
              threw |-> FALSE, stop |-> FALSE],
             0, 2 * MAX_ITERATIONS_PER_JOB - 1)

\* for (let i = 0; i < MAX_ITERATIONS_PER_JOB; i += 1) { ... }
CollectRuns(fault, expr, zone, startAtMs, endAtMs) ==
    ForRange(LAMBDA st, i : CollectStep(fault, expr, zone, endAtMs, st, i),
             LAMBDA st : st.stop,
             [runs |-> <<>>, cursor |-> FirstCursor(startAtMs), asked |-> <<>>,
              threw |-> FALSE, stop |-> FALSE],
             0, MAX_ITERATIONS_PER_JOB - 1)

\* The state of the loop when it ends, for a job with a parsable expression.
Collected(fault, expr, timezone, startAtMs, endAtMs) ==
    CollectRuns(fault, expr, ZoneOf(timezone), startAtMs, endAtMs)

\* Math.min(...runs.slice(1).map((ms, idx) => ms - runs[idx]))
MinGapMs(runs) == SeqMin([k \in 1..(Len(runs) - 1) |-> runs[k + 1] - runs[k]])

\* Mutant: a gap of exactly the threshold counts as noisy.
IsNoisyInclusive(runs) == MinGapMs(runs) <= NOISY_INTERVAL_MS

IsNoisy(runs) == MinGapMs(runs) < NOISY_INTERVAL_MS

\* One iteration of the loop over runs: the first run of each calendar day
\* in the job's zone is kept, until MAX_RUNS_PER_NOISY_JOB are.
FirstPerDayNext(st, runAtMs, key) ==
    IF key \in st.seenDays THEN st
    ELSE LET capped == Append(st.capped, runAtMs)
         IN  [seenDays |-> st.seenDays \cup {key},
              capped   |-> capped,
              stop     |-> Len(capped) >= MAX_RUNS_PER_NOISY_JOB]

FirstPerDayStep(runs, timezone, st, k) ==
    IF st.stop THEN st
    ELSE FirstPerDayNext(st, runs[k], dateKey(runs[k], timezone))

FirstPerDay(runs, timezone) ==
    ForRange(LAMBDA st, k : FirstPerDayStep(runs, timezone, st, k),
             LAMBDA st : st.stop,
             [seenDays |-> {}, capped |-> <<>>, stop |-> FALSE],
             1, Len(runs)).capped

\* What the capping policy makes of the collected runs.
CapRuns(runs, timezone) ==
    IF Len(runs) <= MAX_RUNS_PER_JOB
    THEN [runs |-> runs, wasCapped |-> FALSE]
    ELSE IF ~IsNoisy(runs)
         THEN [runs |-> SubSeq(runs, 1, MAX_RUNS_PER_JOB), wasCapped |-> TRUE]
         ELSE [runs |-> FirstPerDay(runs, timezone), wasCapped |-> TRUE]

\* catch { return { runs: [], wasCapped: false } }
Caught == [runs |-> <<>>, wasCapped |-> FALSE]

\* Mutant: the runs collected before a throw are returned.
ReturnedPartial(st, timezone) == CapRuns(st.runs, timezone)

\* What is returned when the loop has ended in state st.
Returned(st, timezone) == IF st.threw THEN Caught ELSE CapRuns(st.runs, timezone)

\* upcomingRunsForJob with the evaluator's behaviour as a parameter.
ProjectWith(fault, job, startAtMs, endAtMs) ==
    LET expr     == getCronExpr(job.schedule)
        timezone == getCronTz(job.schedule)
    IN  IF expr = "" THEN [runs |-> <<>>, wasCapped |-> FALSE]
        ELSE IF ~CronPattern(expr).valid THEN Caught
        ELSE Returned(Collected(fault, expr, timezone, startAtMs, endAtMs), timezone)

upcomingRunsForJob(job, startAtMs, endAtMs) ==
    ProjectWith(evalFault, job, startAtMs, endAtMs)

TraceOf(st) == [runs |-> st.runs, asked |-> st.asked]

\* What the loop of that projection did: the instants it collected and the
\* cursors it called the evaluator with (none when no loop was entered).
LoopTrace(fault, job, startAtMs, endAtMs) ==
    LET expr == getCronExpr(job.schedule)
    IN  IF expr = "" \/ ~CronPattern(expr).valid
        THEN [runs |-> <<>>, asked |-> <<>>]
        ELSE TraceOf(Collected(fault, expr, getCronTz(job.schedule), startAtMs, endAtMs))

(***************************************************************************)
(* Strings that the code inspects (names, agent ids, the query) are        *)
(* sequences of one-character strings.                                     *)
(***************************************************************************)
UpperToLower ==
    ("A" :> "a") @@ ("B" :> "b") @@ ("C" :> "c") @@ ("D" :> "d") @@ ("E" :> "e") @@
    ("F" :> "f") @@ ("G" :> "g") @@ ("H" :> "h") @@ ("I" :> "i") @@ ("J" :> "j") @@
    ("K" :> "k") @@ ("L" :> "l") @@ ("M" :> "m") @@ ("N" :> "n") @@ ("O" :> "o") @@
    ("P" :> "p") @@ ("Q" :> "q") @@ ("R" :> "r") @@ ("S" :> "s") @@ ("T" :> "t") @@
    ("U" :> "u") @@ ("V" :> "v") @@ ("W" :> "w") @@ ("X" :> "x") @@ ("Y" :> "y") @@
    ("Z" :> "z")

LowerChar(c) == IF c \in DOMAIN UpperToLower THEN UpperToLower[c] ELSE c

\* s.toLowerCase()
toLowerCase(s) == [i \in 1..Len(s) |-> LowerChar(s[i])]

\* s.trim()
RECURSIVE TrimLeft(_)
TrimLeft(s) == IF Len(s) > 0 /\ s[1] = " " THEN TrimLeft(Tail(s)) ELSE s

RECURSIVE TrimRight(_)
TrimRight(s) ==
    IF Len(s) > 0 /\ s[Len(s)] = " " THEN TrimRight(SubSeq(s, 1, Len(s) - 1)) ELSE s

trim(s) == TrimRight(TrimLeft(s))

\* hay.includes(needle)
includes(hay, needle) ==
    \E i \in 0..(Len(hay) - Len(needle)) : SubSeq(hay, i + 1, i + Len(needle)) = needle

\* Collation order of the characters the model uses: space and punctuation,
\* then digits, then letters; case is a tie-break only, lower case first.
CollationOrder ==
    <<" ", "-", "(", ")", "0", "1", "2", "3", "4", "5", "6", "7", "8", "9",
      "a", "b", "c", "d", "e", "f", "g", "h", "i", "j", "k", "l", "m",
      "n", "o", "p", "q", "r", "s", "t", "u", "v", "w", "x", "y", "z">>

RankOfChar ==
    [c \in Range(CollationOrder) |->
        CHOOSE i \in 1..Len(CollationOrder) : CollationOrder[i] = c]

CharRank(c) == RankOfChar[LowerChar(c)]

\* Lexicographic comparison of two sequences of ranks: -1, 0 or 1.
RECURSIVE CompareRanks(_, _)
CompareRanks(a, b) ==
    IF Len(a) = 0 /\ Len(b) = 0 THEN 0
    ELSE IF Len(a) = 0 THEN 0 - 1
    ELSE IF Len(b) = 0 THEN 1
    ELSE IF a[1] < b[1] THEN 0 - 1
    ELSE IF a[1] > b[1] THEN 1
    ELSE CompareRanks(Tail(a), Tail(b))

CaseRank(c) == IF c \in DOMAIN UpperToLower THEN 1 ELSE 0

\* a.localeCompare(b): letters first, then case.
localeCompare(a, b) ==
    LET primary == CompareRanks([i \in 1..Len(a) |-> CharRank(a[i])],
                                [i \in 1..Len(b) |-> CharRank(b[i])])
    IN  IF primary # 0 THEN primary
        ELSE CompareRanks([i \in 1..Len(a) |-> CaseRank(a[i])],
                          [i \in 1..Len(b) |-> CaseRank(b[i])])

(***************************************************************************)
(* Agenda items                                                            *)
(***************************************************************************)
FlatMap(F(_), s) == ForEach(LAMBDA acc, k : acc \o F(s[k]), s)

\* The items one job contributes (the body of the loop over jobs): one for
\* each run of the projection res.
ItemsOfRuns(job, expr, tz, res) ==
    [k \in 1..Len(res.runs) |->
        [runAtMs      |-> res.runs[k],
         job          |-> job,
         agentId      |-> IF job.agentId # <<>> THEN job.agentId
                          ELSE <<"(", "d", "e", "f", "a", "u", "l", "t", ")">>,
         enabled      |-> job.enabled,
         scheduleExpr |-> expr,
         scheduleTz   |-> tz,
         wasCapped    |-> res.wasCapped]]

ItemsOfJob(job, startAtMs, endAtMs) ==
    IF getCronExpr(job.schedule) = "" THEN <<>>
    ELSE ItemsOfRuns(job, getCronExpr(job.schedule), getCronTz(job.schedule),
                     upcomingRunsForJob(job, startAtMs, endAtMs))

\* Mutant: runs at the same instant are not ordered by job name.
CompareItemsByTimeOnly(a, b) == a.runAtMs - b.runAtMs

\* The comparator of items.sort: negative when a goes before b.
CompareItems(a, b) ==
    IF a.runAtMs # b.runAtMs THEN a.runAtMs - b.runAtMs
    ELSE localeCompare(a.job.name, b.job.name)

\* How many elements of sorted[lo..hi] do not compare greater than x, given
\* that those which do not precede those which do.
RECURSIVE CountNotGreater(_, _, _, _, _)
CountNotGreater(Cmp(_, _), sorted, x, lo, hi) ==
    IF lo > hi THEN 0
    ELSE LET mid == (lo + hi) \div 2
         IN  IF Cmp(sorted[mid], x) <= 0
             THEN (mid - lo + 1) + CountNotGreater(Cmp, sorted, x, mid + 1, hi)
             ELSE CountNotGreater(Cmp, sorted, x, lo, mid - 1)

\* Array.prototype.sort is stable: an item goes after the items that do not
\* compare greater than it.
InsertAfter(sorted, x, n) ==
    SubSeq(sorted, 1, n) \o <<x>> \o SubSeq(sorted, n + 1, Len(sorted))

InsertSorted(Cmp(_, _), sorted, x) ==
    InsertAfter(sorted, x, CountNotGreater(Cmp, sorted, x, 1, Len(sorted)))

SortBy(Cmp(_, _), items) ==
    ForEach(LAMBDA sorted, k : InsertSorted(Cmp, sorted, items[k]), items)

SortItems(items) == SortBy(CompareItems, items)

buildAgendaItems(jobList, startAtMs, endAtMs) ==
    SortItems(FlatMap(LAMBDA job : ItemsOfJob(job, startAtMs, endAtMs), jobList))

(***************************************************************************)
(* Grouping by day, the agenda and the week                                *)
(***************************************************************************)
\* The keys of the Map in insertion order: the date keys of the items, each
\* once, in order of first appearance.
AddKey(keys, key) == IF key \in Range(keys) THEN keys ELSE Append(keys, key)

KeysInOrder(items, timeZone) ==
    ForEach(LAMBDA keys, k : AddKey(keys, dateKey(items[k].runAtMs, timeZone)), items)

\* Mutant: the later date first.
CompareKeysDescending(a, b) == IF KeyLess(a, b) THEN 1 ELSE IF KeyLess(b, a) THEN 0 - 1 ELSE 0

CompareKeys(a, b) == IF KeyLess(a, b) THEN 0 - 1 ELSE IF KeyLess(b, a) THEN 1 ELSE 0

ItemsOfDay(items, timeZone, key) ==
    SelectSeq(items, LAMBDA item : dateKey(item.runAtMs, timeZone) = key)

\* The heading is formatted from the first item of the group.
GroupOf(key, members) ==
    [key |-> key, headingMs |-> members[1].runAtMs, items |-> members]

GroupsOf(items, timeZone, keys) ==
    [g \in 1..Len(keys) |-> GroupOf(keys[g], ItemsOfDay(items, timeZone, keys[g]))]

groupAgendaByDay(items, timeZone) ==
    GroupsOf(items, timeZone, SortBy(CompareKeys, KeysInOrder(items, timeZone)))

\* The instant whose wall-clock reading in the zone is w, as Date resolves
\* it: the earlier instant when w occurs twice, and the reading under the
\* offset before the transition when w is skipped.
WallToUtc(zone, w) ==
    IF w - zone.before < zone.at THEN w - zone.before
    ELSE IF w - zone.after >= zone.at THEN w - zone.after
    ELSE w - zone.before

WallOf(zone, epochMs) == epochMs + OffsetAt(zone, epochMs)

\* d.setHours(0, 0, 0, 0)
SetHoursMidnight(zone, epochMs) == WallToUtc(zone, (WallOf(zone, epochMs) \div DAY) * DAY)

\* d.setDate(d.getDate() - diff)
SetDateBack(zone, epochMs, diff) == WallToUtc(zone, WallOf(zone, epochMs) - diff * DAY)

\* From d.getDay() on: midnight is the instant d holds after setHours.
WeekStartFrom(midnight, weekStartsOn) ==
    LET day  == WeekdayOfWall(WallOf(localZone, midnight))
        diff == (day - weekStartsOn + 7) % 7
    IN  SetDateBack(localZone, midnight, diff)

startOfWeekMs(epochMs, weekStartsOn) ==
    WeekStartFrom(SetHoursMidnight(localZone, epochMs), weekStartsOn)

\* Math.min(total, MAX_AGENDA_ITEMS_TOTAL)
ShownOf(total) == Min(total, MAX_AGENDA_ITEMS_TOTAL)

\* The agenda memo, computed when Date.now() reads nowMs.  The memo returns
\* total, shown, wasGlobalCapped and groups; nowMs and items are its locals.
AgendaOf(nowMs, allItems) ==
    LET total == Len(allItems)
        shown == ShownOf(total)
    IN  [nowMs           |-> nowMs,
         total           |-> total,
         shown           |-> shown,
         wasGlobalCapped |-> total > shown,
         items           |-> SubSeq(allItems, 1, shown),
         groups          |-> groupAgendaByDay(SubSeq(allItems, 1, shown), "")]

AgendaAt(jobList, nowMs) ==
    AgendaOf(nowMs, buildAgendaItems(jobList, nowMs, nowMs + AGENDA_LOOKAHEAD_DAYS * DAY))

\* Mutant: nothing is filtered out.
KeepPast(item, nowMs) == item.runAtMs >= item.runAtMs

\* .filter((item) => item.runAtMs >= nowMs)
NotYetOccurred(item, nowMs) == item.runAtMs >= nowMs

\* The week's items before the global cap.
WeekItems(jobList, nowMs, weekStartMs) ==
    SelectSeq(buildAgendaItems(jobList, weekStartMs, weekStartMs + 7 * DAY),
              LAMBDA item : NotYetOccurred(item, nowMs))

CompareRunAt(a, b) == a.runAtMs - b.runAtMs

\* Slot idx of the week: the items whose local date key is the key of
\* weekStartMs + idx days.
SlotOf(items, dayStartMs, key) ==
    [key       |-> key,
     headingMs |-> dayStartMs,
     items     |-> SortBy(CompareRunAt, ItemsOfDay(items, "", key))]

WeekSlot(items, weekStartMs, idx) ==
    SlotOf(items, weekStartMs + idx * DAY, dateKey(weekStartMs + idx * DAY, ""))

\* The week memo, computed when Date.now() reads nowMs.  The memo returns
\* total, shown, wasGlobalCapped and days; nowMs, weekStartMs and items are
\* its locals.
WeekOf(nowMs, weekStartMs, allItems) ==
    LET total == Len(allItems)
        shown == ShownOf(total)
        items == SubSeq(allItems, 1, shown)
    IN  [nowMs           |-> nowMs,
         weekStartMs     |-> weekStartMs,
         total           |-> total,
         shown           |-> shown,
         wasGlobalCapped |-> total > shown,
         items           |-> items,
         days            |-> [i \in 1..7 |-> WeekSlot(items, weekStartMs, i - 1)]]

WeekFrom(jobList, nowMs, weekStartMs) ==
    WeekOf(nowMs, weekStartMs, WeekItems(jobList, nowMs, weekStartMs))

WeekAt(jobList, nowMs, weekStartsOn) ==
    WeekFrom(jobList, nowMs, startOfWeekMs(nowMs, weekStartsOn))

\* The filteredJobs memo.
\* Mutant: the "Enabled only" checkbox is not looked at.
PassesQueryOnly(job, q, onlyEnabled) ==
    Len(q) = 0 \/ includes(toLowerCase(job.name), q) \/ includes(toLowerCase(job.agentId), q)

PassesFilter(job, q, onlyEnabled) ==
    LET name         == toLowerCase(job.name)
        agentId      == toLowerCase(job.agentId)
        passesQuery  == Len(q) = 0 \/ includes(name, q) \/ includes(agentId, q)
        passesEnabled == ~onlyEnabled \/ job.enabled
    IN  passesQuery /\ passesEnabled

FilterJobs(jobList, rawQuery, onlyEnabled) ==
    LET q == toLowerCase(trim(rawQuery))
    IN  SelectSeq(jobList, LAMBDA job : PassesFilter(job, q, onlyEnabled))

(***************************************************************************)
(* Inputs of the model                                                     *)
(***************************************************************************)
\* Instants the clock can read and windows can start at.  Three days before
\* the origin is a Monday (1969-12-29).
Monday0     == 0 - 3 * DAY
WednesdayAm == 0 - DAY + 9 * HOUR + 17 * MINUTE + 23456
SaturdayPm  == 2 * DAY + 12 * HOUR
SundayNoon  == 3 * DAY + 12 * HOUR + 17 * MINUTE + 23456

ClockValues == {Monday0, SundayNoon}

\* Local zones: UTC; a zone that falls back one
\* hour at local midnight at the end of Saturday 1970-01-03; a zone that
\* springs forward one hour at 02:00 on Sunday 1970-01-04.
FallBackZone      == [before |-> 0 - 2 * HOUR, after |-> 0 - 3 * HOUR, at |-> 3 * DAY + 2 * HOUR]
SpringForwardZone == [before |-> HOUR, after |-> 2 * HOUR, at |-> 3 * DAY + HOUR]

LocalZones == {FixedZone(0), FallBackZone, SpringForwardZone}

CronExprs ==
    {"*/5 * * * *", "*/30 * * * *", "0 * * * *", "0 */2 * * *", "0 */3 * * *",
     "0 */8 * * *", "0 0 * * *", "0 0,1,2 * * *", "0 0-4 * * 1-5"}

JobZones == {"", "UTC", "Asia/Tokyo"}

NameAlpha == <<"a", "l", "p", "h", "a">>
NameBeta  == <<"B", "e", "t", "a">>
NameGamma == <<"g", "a", "m", "m", "a">>
AgentOps  == <<"o", "p", "s">>

DigitChars == <<"0", "1", "2", "3", "4", "5", "6", "7", "8", "9">>

NumberedName(k) == <<"j", "o", "b", DigitChars[(k \div 10) + 1], DigitChars[(k % 10) + 1]>>

\* Jobs the projector is probed with: every expression in every zone, in
\* either spelling of the fields, and the schedules that are not projectable.
ProbeJobs ==
    { Job(NameAlpha, <<>>, TRUE, Schedule("cron", e, "", z, "")) : e \in CronExprs, z \in JobZones }
    \cup { Job(NameBeta, AgentOps, FALSE, Schedule("cron", "", e, "", z)) :
             e \in {"*/30 * * * *", "0 */8 * * *"}, z \in {"UTC", "Asia/Tokyo"} }
    \cup { Job(NameGamma, <<>>, TRUE, NoSchedule),
           Job(NameGamma, <<>>, TRUE, Schedule("every", "0 * * * *", "", "UTC", "")),
           Job(NameGamma, <<>>, TRUE, Schedule("cron", "", "", "UTC", "")),
           Job(NameGamma, <<>>, TRUE, Schedule("cron", "not a cron", "", "", "")) }

ProbeStarts == {Monday0, WednesdayAm, SaturdayPm}

ProbeLengths == {HOUR, 2 * DAY, 7 * DAY, 10 * DAY}

\* The calls of a projection on which the evaluator is made to fail.
FaultCalls == {1, 3, 25}

\* `out` holds what the call returned (runs, wasCapped) and what its loop
\* did: the instants it collected and the cursors it asked the evaluator about.
NotProjected ==
    [done |-> FALSE, runs |-> <<>>, wasCapped |-> FALSE, raw |-> <<>>, asked |-> <<>>]

NoProbe == [job |-> Job(<<>>, <<>>, FALSE, NoSchedule), startAtMs |-> 0, endAtMs |-> 0]

\* The memory before any builder has run.  list is the array of jobs handed
\* to the builders, as the identities of its records, and job the record of
\* each identity; item is every AgendaItem object made so far, by identity,
\* its job field holding the identity of the job; items is the array `items`
\* of buildAgendaItems, at its index into the job list, startAtMs and endAtMs
\* its arguments; cursor is the Date last assigned to `cursor` in
\* upcomingRunsForJob, if any; returned tells that the caller has had the
\* builders' results once.
NoHeap ==
    [list |-> <<>>, job |-> <<>>, item |-> <<>>, items |-> <<>>, at |-> 0,
     startAtMs |-> 0, endAtMs |-> 0, cursor |-> <<>>, returned |-> FALSE]

(***************************************************************************)
(* The projector on its own: one call on arguments drawn at the start.     *)
(* Under SpecProj the evaluator honours its contract; under SpecFail it    *)
(* throws on one call of the projection.                                   *)
(***************************************************************************)
ProbeInputs ==
    { [job |-> j, startAtMs |-> s, endAtMs |-> s + l] :
        j \in ProbeJobs, s \in ProbeStarts, l \in ProbeLengths }

InitProbe ==
    /\ jobs = <<>> /\ query = <<>> /\ enabledOnly = FALSE /\ cronView = "table"
    /\ phase = "loading"
    /\ filteredJobs = <<>>
    /\ clock = Monday0
    /\ localZone \in LocalZones
    /\ agenda = AgendaAt(<<>>, clock)
    /\ week = WeekAt(<<>>, clock, WEEK_STARTS_ON)
    /\ probe \in ProbeInputs
    /\ out = NotProjected
    /\ heap = NoHeap

InitProj == InitProbe /\ evalFault = NoFault

InitFail ==
    /\ InitProbe
    /\ getCronExpr(probe.job.schedule) # ""
    /\ evalFault \in { [expr |-> getCronExpr(probe.job.schedule), mode |-> "throw", at |-> k] :
                         k \in FaultCalls }

\* Evaluators outside their contract: one stuck on an instant half an hour
\* into the window or an hour before it, one that always finds a fire time a
\* millisecond, or a minute, after the cursor.
WildFaults(expr, startAtMs) ==
    { [expr |-> expr, mode |-> "stuck", at |-> t] :
        t \in {startAtMs + 30 * MINUTE, startAtMs - HOUR} }
    \cup { [expr |-> expr, mode |-> "dense", at |-> d] : d \in {1, MINUTE} }

InitWild ==
    /\ InitProbe
    /\ evalFault \in {NoFault} \cup WildFaults(getCronExpr(probe.job.schedule), probe.startAtMs)

Projected(res, trace) ==
    [done |-> TRUE, runs |-> res.runs, wasCapped |-> res.wasCapped,
     raw |-> trace.runs, asked |-> trace.asked]

ProjectJob ==
    /\ ~out.done
    /\ out' = Projected(upcomingRunsForJob(probe.job, probe.startAtMs, probe.endAtMs),
                        LoopTrace(evalFault, probe.job, probe.startAtMs, probe.endAtMs))
    /\ UNCHANGED <<appVars, phase, localZone, evalFault, probe, heap>>

NextProj == ProjectJob

SpecProj == InitProj /\ [][NextProj]_vars

SpecFail == InitFail /\ [][NextProj]_vars

SpecWild == InitWild /\ [][NextProj]_vars

(***************************************************************************)
(* startOfWeekMs on its own: one call on a now and a first weekday drawn   *)
(* at the start.                                                           *)
(***************************************************************************)
\* Every half hour of nine days from Monday 1969-12-29 00:00 UTC.
WeekNows == { Monday0 + k * 30 * MINUTE : k \in 0..431 }

WeekProbes == { [nowMs |-> n, weekStartsOn |-> w] : n \in WeekNows, w \in {0, 1} }

NoWeekStart == [done |-> FALSE, weekStartMs |-> 0]

InitWeek ==
    /\ jobs = <<>> /\ query = <<>> /\ enabledOnly = FALSE /\ cronView = "table"
    /\ phase = "loading"
    /\ filteredJobs = <<>>
    /\ clock = Monday0
    /\ localZone \in LocalZones
    /\ evalFault = NoFault
    /\ agenda = AgendaAt(<<>>, clock)
    /\ week = WeekAt(<<>>, clock, WEEK_STARTS_ON)
    /\ probe \in WeekProbes
    /\ out = NoWeekStart
    /\ heap = NoHeap

StartOfWeek ==
    /\ ~out.done
    /\ out' = [done |-> TRUE, weekStartMs |-> startOfWeekMs(probe.nowMs, probe.weekStartsOn)]
    /\ UNCHANGED <<appVars, phase, localZone, evalFault, probe, heap>>

NextWeek == StartOfWeek

SpecWeek == InitWeek /\ [][NextWeek]_vars

(***************************************************************************)
(* The dashboard: state, memos and handlers of App                         *)
(***************************************************************************)
JobDaily   == Job(NameAlpha, <<>>, TRUE, Schedule("cron", "0 0 * * *", "", "", ""))
JobNoisy   == Job(NameBeta, AgentOps, FALSE, Schedule("cron", "", "*/30 * * * *", "", "Asia/Tokyo"))
JobEvery   == Job(NameGamma, <<>>, TRUE, Schedule("every", "0 * * * *", "", "UTC", ""))
JobBad     == Job(NameGamma, AgentOps, TRUE, Schedule("cron", "not a cron", "", "", ""))
JobWeekday == Job(NameAlpha, AgentOps, TRUE, Schedule("cron", "0 0-4 * * 1-5", "", "UTC", ""))
JobEight   == Job(NameBeta, <<>>, FALSE, Schedule("cron", "0 */8 * * *", "", "UTC", ""))
JobUnscheduled == Job(NameGamma, AgentOps, FALSE, NoSchedule)
JobNoExpr  == Job(NameBeta, <<>>, TRUE, Schedule("cron", "", "", "UTC", ""))
JobThrows  == Job(NameGamma, AgentOps, TRUE, Schedule("cron", "0 0,1,2 * * *", "", "UTC", ""))

\* job{k}, firing every eight hours
JobNumbered(k) == Job(NumberedName(k), <<>>, TRUE, Schedule("cron", "0 */8 * * *", "", "UTC", ""))

\* How many numbered jobs the long list holds: with 20 runs kept of each,
\* 13 of them exceed MAX_AGENDA_ITEMS_TOTAL.
BulkJobs == 13

\* The long list, names descending.
BulkList == [k \in 1..BulkJobs |-> JobNumbered(BulkJobs + 1 - k)]

JobLists ==
    { <<>>,
      <<JobNoisy, JobEvery, JobWeekday, JobUnscheduled, JobBad, JobEight, JobNoExpr,
        JobThrows, JobDaily>>,
      BulkList }

\* No query, and " P ": after trimming and lower-casing it is in the names
\* "alpha" and in the agent id "ops".
Queries == { <<>>, <<" ", "P", " ">> }

CronViews == {"table", "week", "agenda"}

\* The evaluator throws on the third call made for the expression of
\* JobThrows.
ThirdCallThrows == [expr |-> "0 0,1,2 * * *", mode |-> "throw", at |-> 3]

\* In the dashboard the evaluator answers every call but that one; the
\* expression of JobBad does not parse.
AppFaults == {ThirdCallThrows}

\* The milliseconds that can pass between the Date.now() of the agenda memo
\* and the Date.now() of the week memo, which runs after it: none, or one.
Delays == {0, 1}

\* The readings the clock of the model gives: the instants of ClockValues,
\* and the instants a read delay after them.
ClockReadings == { nowMs + delay : nowMs \in ClockValues, delay \in Delays }

\* The delays a render that reads the clock at nowMs may see, the clock
\* staying within ClockReadings: once it is a delay past an instant of
\* ClockValues, the renders read it twice within a millisecond until time
\* passes (Tick).
ReadDelaysAt(nowMs) == { delay \in Delays : nowMs + delay \in ClockReadings }

ReadDelays == ReadDelaysAt(clock)

\* A render pass: the three memos are recomputed from the new inputs, in the
\* order of their declaration.  The agenda memo reads the clock; the week
\* memo reads it after that, a read delay later.
Render(newJobs, newQuery, newEnabledOnly) ==
    /\ filteredJobs' = FilterJobs(newJobs, newQuery, newEnabledOnly)
    /\ agenda' = AgendaAt(filteredJobs', clock)
    /\ \E delay \in ReadDelays :
          /\ week' = WeekAt(filteredJobs', clock + delay, WEEK_STARTS_ON)
          /\ clock' = clock + delay

\* The first render, before the mount effect has delivered the jobs: the
\* agenda memo reads the clock, then the week memo reads it.
Init ==
    /\ jobs = <<>> /\ query = <<>> /\ enabledOnly = FALSE /\ cronView = "table"
    /\ phase = "loading"
    /\ localZone \in LocalZones
    /\ evalFault \in AppFaults
    /\ filteredJobs = <<>>
    /\ \E nowMs \in ClockValues :
       \E delay \in ReadDelaysAt(nowMs) :
          /\ agenda = AgendaAt(<<>>, nowMs)
          /\ week = WeekAt(<<>>, nowMs + delay, WEEK_STARTS_ON)
          /\ clock = nowMs + delay
    /\ probe = NoProbe
    /\ out = NotProjected
    /\ heap = NoHeap

\* The mount effect: setJobs(extractJobs(...)), or setJobs([]) on failure.
LoadJobs ==
    /\ phase = "loading"
    /\ \E list \in JobLists :
          /\ jobs' = list
          /\ Render(list, query, enabledOnly)
    /\ phase' = "ready"
    /\ UNCHANGED <<query, enabledOnly, cronView, localZone, evalFault, probe, out, heap>>

\* onChange of the filter input
SetQuery ==
    /\ \E q \in Queries :
          /\ q # query
          /\ query' = q
          /\ Render(jobs, q, enabledOnly)
    /\ UNCHANGED <<jobs, enabledOnly, cronView, phase, localZone, evalFault, probe, out, heap>>

\* onChange of the "Enabled only" checkbox
SetEnabledOnly ==
    /\ enabledOnly' = ~enabledOnly
    /\ Render(jobs, query, enabledOnly')
    /\ UNCHANGED <<jobs, query, cronView, phase, localZone, evalFault, probe, out, heap>>

\* The view buttons: the memos' dependencies do not change.
SetCronView ==
    /\ \E v \in CronViews :
          /\ v # cronView
          /\ cronView' = v
    /\ UNCHANGED <<jobs, query, enabledOnly, filteredJobs, agenda, week,
                   clock, phase, localZone, evalFault, probe, out, heap>>

\* Time passes.
Tick ==
    /\ \E t \in ClockValues :
          /\ t > clock
          /\ clock' = t
    /\ UNCHANGED <<jobs, query, enabledOnly, cronView, filteredJobs, agenda, week,
                   phase, localZone, evalFault, probe, out, heap>>

Next == LoadJobs \/ SetQuery \/ SetEnabledOnly \/ SetCronView \/ Tick

Spec == Init /\ [][Next]_vars

(***************************************************************************)
(* The builders called twice on the same arguments, followed statement by  *)
(* statement: the projector on one job of the list, then the agenda memo   *)
(* and the week memo on the list and the clock's reading.  The objects     *)
(* the statements read and write are in heap; an object that is no longer  *)
(* referred to stays there.  The results of the first round stay in out,   *)
(* agenda and week while the second round is made.                         *)
(***************************************************************************)
TwiceLists == { list \in JobLists : Len(list) > 0 }

\* The projector is called on the job at position index of the list.
TwiceProbes ==
    { [index |-> i, startAtMs |-> s, endAtMs |-> s + 7 * DAY] :
        i \in {1, 6, 8}, s \in {Monday0, SaturdayPm} }

\* The array of jobs and its records, as objects.
HeapOf(jobList) ==
    [NoHeap EXCEPT !.list = [k \in 1..Len(jobList) |-> k], !.job = jobList]

InitTwice ==
    /\ jobs \in TwiceLists
    /\ query = <<>> /\ enabledOnly = FALSE /\ cronView = "table"
    /\ phase = "idle"
    /\ filteredJobs = jobs
    /\ clock \in ClockValues
    /\ localZone \in LocalZones
    /\ evalFault \in AppFaults
    /\ agenda = AgendaAt(<<>>, clock)
    /\ week = WeekAt(<<>>, clock, WEEK_STARTS_ON)
    /\ probe \in TwiceProbes
    /\ out = NotProjected
    /\ heap = HeapOf(jobs)

\* for (const job of jobs): the job at position k of the array
JobAt(h, k) == h.job[h.list[k]]

\* What `cursor` holds when upcomingRunsForJob returns: it is assigned only
\* inside the try block, once the Cron object has been made.
CursorAfter(h, job, startAtMs, endAtMs) ==
    IF getCronExpr(job.schedule) = "" \/ ~CronPattern(getCronExpr(job.schedule)).valid
    THEN h.cursor
    ELSE <<Collected(evalFault, getCronExpr(job.schedule), getCronTz(job.schedule),
                     startAtMs, endAtMs).cursor>>

\* A call of upcomingRunsForJob from outside the builders.
CallProjector ==
    /\ phase \in {"idle", "once"}
    /\ out' = Projected(upcomingRunsForJob(JobAt(heap, probe.index),
                                           probe.startAtMs, probe.endAtMs),
                        LoopTrace(evalFault, JobAt(heap, probe.index),
                                  probe.startAtMs, probe.endAtMs))
    /\ heap' = [heap EXCEPT !.cursor = CursorAfter(heap, JobAt(heap, probe.index),
                                                   probe.startAtMs, probe.endAtMs)]
    /\ phase' = "projected"
    /\ UNCHANGED <<appVars, localZone, evalFault, probe>>

\* buildAgendaItems is entered: const items = []
BeginItems(h, startAtMs, endAtMs) ==
    [h EXCEPT !.items = <<>>, !.at = 1, !.startAtMs = startAtMs, !.endAtMs = endAtMs]

\* The agenda memo up to its call of buildAgendaItems.
AgendaBegin ==
    /\ phase = "projected"
    /\ heap' = BeginItems(heap, clock, clock + AGENDA_LOOKAHEAD_DAYS * DAY)
    /\ phase' = "agenda.build"
    /\ UNCHANGED <<appVars, localZone, evalFault, probe, out>>

\* The week memo up to its call of buildAgendaItems.
WeekBegin ==
    /\ phase = "agenda.done"
    /\ heap' = BeginItems(heap, startOfWeekMs(clock, WEEK_STARTS_ON),
                          startOfWeekMs(clock, WEEK_STARTS_ON) + 7 * DAY)
    /\ phase' = "week.build"
    /\ UNCHANGED <<appVars, localZone, evalFault, probe, out>>

\* Mutant: the default agent is written into the job (job.agentId ||= ...)
\* before the items are made.
PushItemsDefaulting(h, jobId, made) ==
    [h EXCEPT !.item  = @ \o [k \in 1..Len(made) |-> [made[k] EXCEPT !.job = jobId]],
              !.items = @ \o [k \in 1..Len(made) |-> Len(h.item) + k],
              !.job[jobId].agentId =
                  IF @ # <<>> \/ Len(made) = 0 THEN @
                  ELSE <<"(", "d", "e", "f", "a", "u", "l", "t", ")">>]

\* items.push({ runAtMs, job, ... }) for each run of the job: the objects
\* `made` are new, their job field refers to the job, and the array holds
\* them after those it held.
PushItems(h, jobId, made) ==
    [h EXCEPT !.item  = @ \o [k \in 1..Len(made) |-> [made[k] EXCEPT !.job = jobId]],
              !.items = @ \o [k \in 1..Len(made) |-> Len(h.item) + k]]

\* One pass of the loop over the jobs in buildAgendaItems.
BuildNext ==
    /\ phase \in {"agenda.build", "week.build"}
    /\ heap.at <= Len(heap.list)
    /\ heap' = [PushItems(heap, heap.list[heap.at],
                          ItemsOfJob(JobAt(heap, heap.at), heap.startAtMs, heap.endAtMs))
                  EXCEPT !.at = heap.at + 1,
                         !.cursor = CursorAfter(heap, JobAt(heap, heap.at),
                                                heap.startAtMs, heap.endAtMs)]
    /\ UNCHANGED <<appVars, phase, localZone, evalFault, probe, out>>

\* The item object as a value: a.job is the job the object refers to.
ItemValue(h, id) == [h.item[id] EXCEPT !.job = h.job[@]]

\* The comparator of items.sort on two objects of the array.
CompareRefs(h, a, b) == CompareItems(ItemValue(h, a), ItemValue(h, b))

\* items.sort(...) once the loop over the jobs has ended: the array is
\* reordered in place.
SortBuilt ==
    /\ phase \in {"agenda.build", "week.build"}
    /\ heap.at > Len(heap.list)
    /\ heap' = [heap EXCEPT !.items = SortBy(LAMBDA a, b : CompareRefs(heap, a, b), @)]
    /\ phase' = (IF phase = "agenda.build" THEN "agenda.sorted" ELSE "week.sorted")
    /\ UNCHANGED <<appVars, localZone, evalFault, probe, out>>

\* return items: the array buildAgendaItems returns, as values.
Built(h) == [k \in 1..Len(h.items) |-> ItemValue(h, h.items[k])]

\* The rest of the agenda memo: slice and groupAgendaByDay make new arrays
\* of the objects and write to none of them.
AgendaFinish ==
    /\ phase = "agenda.sorted"
    /\ agenda' = AgendaOf(heap.startAtMs, Built(heap))
    /\ phase' = "agenda.done"
    /\ UNCHANGED <<jobs, query, enabledOnly, cronView, filteredJobs, week, clock,
                   localZone, evalFault, probe, out, heap>>

\* The rest of the week memo: filter, slice and the lists of byDay are new
\* arrays of the objects; list.sort reorders those lists.
WeekFinish ==
    /\ phase = "week.sorted"
    /\ week' = WeekOf(clock, heap.startAtMs,
                      SelectSeq(Built(heap), LAMBDA item : NotYetOccurred(item, clock)))
    /\ heap' = [heap EXCEPT !.returned = TRUE]
    /\ phase' = (IF heap.returned THEN "twice" ELSE "once")
    /\ UNCHANGED <<jobs, query, enabledOnly, cronView, filteredJobs, agenda, clock,
                   localZone, evalFault, probe, out>>

NextTwice ==
    \/ CallProjector \/ AgendaBegin \/ BuildNext \/ SortBuilt \/ AgendaFinish
    \/ WeekBegin \/ WeekFinish

SpecTwice == InitTwice /\ [][NextTwice]_vars

(***************************************************************************)
(* Properties of the per-job projector                                     *)
(***************************************************************************)
\* Every expression of the catalogue fires on wall-clock multiples of five
\* minutes, and every zone offset is a multiple of an hour.
GridMs == 5 * MINUTE

\* The fire instants of a schedule strictly between lo and hi, found by
\* testing every grid instant against the wall-clock rule.
FireInstantsIn(expr, timezone, lo, hi) ==
    IF expr = "" \/ ~CronPattern(expr).valid THEN {}
    ELSE { t \in { g * GridMs : g \in (lo \div GridMs)..(hi \div GridMs) } :
             lo < t /\ t < hi /\ Fires(CronPattern(expr), ZoneOf(timezone), t) }

ProbeExpr == getCronExpr(probe.job.schedule)
ProbeTz   == getCronTz(probe.job.schedule)

\* The probed job's fire instants inside the probed window.  The projector
\* asks for fire times strictly after the window's start.
ProbeFires == FireInstantsIn(ProbeExpr, ProbeTz, probe.startAtMs, probe.endAtMs)

StrictlyAscending(s) == \A k \in 1..(Len(s) - 1) : s[k] < s[k + 1]

Max(a, b) == IF a >= b THEN a ELSE b

\* t is a fire instant inside the probed window and no earlier fire instant
\* inside the window has its calendar day in the job's zone.
FirstInWindowFireOfItsDay(t) ==
    /\ t \in FireInstantsIn(ProbeExpr, ProbeTz, Max(probe.startAtMs, t - GridMs), Min(probe.endAtMs, t + GridMs))
    /\ \A u \in FireInstantsIn(ProbeExpr, ProbeTz, Max(probe.startAtMs, t - 26 * HOUR), t) :
          dateKey(u, ProbeTz) # dateKey(t, ProbeTz)

\* The projection classified the job as noisy.
ProbeNoisy == Len(out.raw) > MAX_RUNS_PER_JOB /\ MinGapMs(out.raw) < NOISY_INTERVAL_MS

\* The projection found more than the soft cap of runs, none closer than
\* the noisy threshold.
ProbeOverflow == Len(out.raw) > MAX_RUNS_PER_JOB /\ MinGapMs(out.raw) >= NOISY_INTERVAL_MS

\* C1: every instant the projector returns lies in the window [start, end);
\* a fire instant equal to the window's end is never returned.
C1_ReturnedInsideWindow ==
    out.done =>
        \A k \in 1..Len(out.runs) :
            probe.startAtMs <= out.runs[k] /\ out.runs[k] < probe.endAtMs

\* C2: for a noisy job the projector returns at most 7 instants, no two on
\* the same calendar day of the job's zone, each the first in-window fire
\* instant of its day, with wasCapped = true.
C2_NoisyOnePerDay ==
    (out.done /\ ProbeNoisy) =>
        /\ Len(out.runs) <= MAX_RUNS_PER_NOISY_JOB
        /\ \A i, j \in 1..Len(out.runs) :
              i # j => dateKey(out.runs[i], ProbeTz) # dateKey(out.runs[j], ProbeTz)
        /\ \A k \in 1..Len(out.runs) : FirstInWindowFireOfItsDay(out.runs[k])
        /\ out.wasCapped

\* C3: for a job with more than 20 collected instants, none closer than two
\* hours, the projector returns exactly the 20 earliest in-window fire
\* instants, in order, with wasCapped = true.
C3_OverflowKeepsFirstTwenty ==
    (out.done /\ ProbeOverflow) =>
        /\ out.wasCapped
        /\ Len(out.runs) = 20
        /\ StrictlyAscending(out.runs)
        /\ Range(out.runs) \subseteq ProbeFires
        /\ \A t \in ProbeFires : t < out.runs[Len(out.runs)] => t \in Range(out.runs)

\* C3 witness: an overflowing job whose closest runs are exactly two hours
\* apart was cut to 20 runs.
C3_Witness ==
    /\ out.done /\ ProbeOverflow
    /\ MinGapMs(out.raw) = NOISY_INTERVAL_MS
    /\ Len(out.runs) = 20 /\ out.wasCapped

\* C4: wasCapped is true exactly when some fire instant of the job inside the
\* window is missing from the returned sequence; when it is false the
\* returned sequence is the complete list of the in-window fire instants.
C4_CappedIffReduced ==
    out.done =>
        /\ out.wasCapped <=> (\E t \in ProbeFires : t \notin Range(out.runs))
        /\ ~out.wasCapped => (Range(out.runs) = ProbeFires /\ StrictlyAscending(out.runs))

\* C5: the returned instants are strictly ascending; the evaluator is asked
\* first about the window's start and then about the previous result plus
\* one second.
C5_AscendingAndCursor ==
    out.done =>
        /\ StrictlyAscending(out.runs)
        /\ Len(out.asked) > 0 => out.asked[1] = probe.startAtMs
        /\ \A k \in 2..Len(out.asked) : out.asked[k] = out.raw[k - 1] + 1000

\* C5 witness: a projection that asked the evaluator at least three times and
\* returned several instants.
C5_Witness == out.done /\ Len(out.asked) >= 3 /\ Len(out.runs) >= 2

\* C10: when the evaluator throws on a call, the projector returns what it
\* would have returned had the evaluator answered "none" on that call.
C10_FailureLikeNone ==
    out.done =>
        [runs |-> out.runs, wasCapped |-> out.wasCapped]
            = ProjectWith([evalFault EXCEPT !.mode = "none"],
                          probe.job, probe.startAtMs, probe.endAtMs)

\* C12: whatever the evaluator answers, also one that keeps finding
\* in-window instants or repeats the same instant, a projection returns
\* after at most 500 calls of the evaluator.
C12_AtMost500Calls ==
    out.done => Len(out.asked) <= MAX_ITERATIONS_PER_JOB

\* C12 witness: a projection returned although the evaluator answered the
\* same in-window instant on every call.
C12_Witness ==
    /\ out.done /\ evalFault.mode = "stuck"
    /\ Len(out.asked) > MAX_RUNS_PER_JOB * 6
    /\ \A k \in 1..Len(out.raw) : out.raw[k] = evalFault.at
    /\ probe.startAtMs < evalFault.at /\ evalFault.at < probe.endAtMs

\* C19: a projection collects at most 121 instants, so at most 121 calls of
\* the evaluator answer an in-window instant and the loop never ends because
\* of the 500-iteration bound; a job whose collection was stopped by the
\* overshoot bound is returned with wasCapped = true.
C19_OvershootBound ==
    out.done =>
        /\ Len(out.raw) <= MAX_RUNS_PER_JOB * 6 + 1
        /\ Len(out.asked) <= Len(out.raw) + 1
        /\ Len(out.asked) < MAX_ITERATIONS_PER_JOB
        /\ Len(out.raw) > MAX_RUNS_PER_JOB * 6 =>
              (out.wasCapped /\ Len(out.runs) <= MAX_RUNS_PER_JOB)

\* C19 witness: a collection over a long window was stopped at 121 instants
\* of an evaluator that honours its contract, and the job was capped.
C19_Witness ==
    /\ out.done /\ evalFault = NoFault
    /\ Len(out.raw) = MAX_RUNS_PER_JOB * 6 + 1
    /\ Len(out.asked) = Len(out.raw)
    /\ out.raw[Len(out.raw)] < probe.endAtMs - DAY
    /\ out.wasCapped

(***************************************************************************)
(* Properties of the dashboard                                             *)
(***************************************************************************)
\* The schedule is missing, is not of kind "cron", or has no expression.
Unprojectable(job) ==
    \/ job.schedule = NoSchedule
    \/ job.schedule[1].kind # "cron"
    \/ (job.schedule[1].expr = "" /\ job.schedule[1].cron = "")

\* The items of the agenda's groups and of the week's slots.
GroupedItems == UNION { Range(agenda.groups[g].items) : g \in 1..Len(agenda.groups) }
SlotItems    == UNION { Range(week.days[d].items) : d \in 1..Len(week.days) }

DisplayedJobs ==
    { item.job : item \in Range(agenda.items) \cup GroupedItems
                          \cup Range(week.items) \cup SlotItems }

AgendaEndMs == agenda.nowMs + AGENDA_LOOKAHEAD_DAYS * DAY
WeekEndMs   == week.weekStartMs + 7 * DAY

\* C6: a job whose schedule is missing, is not of kind "cron" or has an empty
\* expression projects to no instants with wasCapped = false, the evaluator
\* is not called for it, and no item of the agenda or of a week slot is its.
C6_UnprojectableContributesNothing ==
    \A j \in 1..Len(filteredJobs) :
        Unprojectable(filteredJobs[j]) =>
            /\ \A w \in {<<agenda.nowMs, AgendaEndMs>>, <<week.weekStartMs, WeekEndMs>>} :
                  /\ upcomingRunsForJob(filteredJobs[j], w[1], w[2])
                        = [runs |-> <<>>, wasCapped |-> FALSE]
                  /\ LoopTrace(evalFault, filteredJobs[j], w[1], w[2]).asked = <<>>
            /\ filteredJobs[j] \notin DisplayedJobs

\* C6 witness: the agenda and the week show items while jobs without a
\* schedule, of another kind and without an expression are in the list.
C6_Witness ==
    /\ {JobUnscheduled, JobEvery, JobNoExpr} \subseteq Range(filteredJobs)
    /\ GroupedItems # {} /\ SlotItems # {}

\* The instances the jobs of the list project in a window, before merging.
Instances(jobList, startAtMs, endAtMs) ==
    UNION { { [job |-> jobList[j], runAtMs |-> t] :
                t \in Range(upcomingRunsForJob(jobList[j], startAtMs, endAtMs).runs) } :
            j \in 1..Len(jobList) }

\* x goes before y: the earlier fire instant, then the job name.
Before(x, y) ==
    \/ x.runAtMs < y.runAtMs
    \/ (x.runAtMs = y.runAtMs /\ localeCompare(x.job.name, y.job.name) < 0)

\* The view (agenda or week) retains the first MAX_AGENDA_ITEMS_TOTAL of the
\* instances and flags the cut.
CapHolds(view, instances) ==
    LET kept == { [job |-> view.items[k].job, runAtMs |-> view.items[k].runAtMs] :
                    k \in 1..Len(view.items) }
    IN  /\ view.total = Cardinality(instances)
        /\ view.shown = Len(view.items)
        /\ Len(view.items) = Min(view.total, MAX_AGENDA_ITEMS_TOTAL)
        /\ Cardinality(kept) = Len(view.items)
        /\ view.wasGlobalCapped <=> (view.total > MAX_AGENDA_ITEMS_TOTAL)
        /\ kept \subseteq instances
        /\ \A x \in kept : \A y \in instances \ kept : ~Before(y, x)
        /\ \A k \in 1..(Len(view.items) - 1) : ~Before(view.items[k + 1], view.items[k])

\* C7: the agenda and the week each retain exactly min(total, 250) of the
\* merged instances (for the week, of those not earlier than now), flag the
\* cut exactly when total > 250, and retain the first ones in the order
\* (fire instant, then job name).
C7_GlobalCap ==
    /\ CapHolds(agenda, Instances(filteredJobs, agenda.nowMs, AgendaEndMs))
    /\ CapHolds(week, { x \in Instances(filteredJobs, week.weekStartMs, WeekEndMs) :
                          x.runAtMs >= week.nowMs })

\* C7 witness: both views were cut, and the cut fell between jobs that run
\* at the same instant.
C7_Witness ==
    /\ agenda.total > MAX_AGENDA_ITEMS_TOTAL /\ agenda.wasGlobalCapped
    /\ week.total > MAX_AGENDA_ITEMS_TOTAL /\ week.wasGlobalCapped
    /\ \E x \in Instances(filteredJobs, agenda.nowMs, AgendaEndMs) :
          /\ x.runAtMs = agenda.items[Len(agenda.items)].runAtMs
          /\ \A k \in 1..Len(agenda.items) : agenda.items[k].job # x.job
                                             \/ agenda.items[k].runAtMs # x.runAtMs

\* C8: no week slot holds an instance whose fire instant is earlier than the
\* now the week was computed with.
C8_NoPastInWeek ==
    \A d \in 1..Len(week.days) :
        \A k \in 1..Len(week.days[d].items) :
            week.days[d].items[k].runAtMs >= week.nowMs

\* C8 witness: a job of the list fires inside the week before now, and the
\* week's slots hold later instances.
C8_Witness ==
    /\ SlotItems # {}
    /\ \E x \in Instances(filteredJobs, week.weekStartMs, WeekEndMs) :
          week.weekStartMs <= x.runAtMs /\ x.runAtMs < week.nowMs

\* C9: the week has exactly 7 slots, keyed by 7 distinct consecutive local
\* calendar dates that begin with the date of the week's start, whichever
\* day the week starts on.
C9_SevenConsecutiveDays ==
    \A weekStartsOn \in {0, 1} :
        LET w     == WeekAt(filteredJobs, week.nowMs, weekStartsOn)
            first == LocalDayNumber(w.weekStartMs, localZone)
        IN  /\ Len(w.days) = 7
            /\ \A i \in 1..7 : w.days[i].key = CivilFromDays(first + i - 1)
            /\ (weekStartsOn = WEEK_STARTS_ON => w.days = week.days)

\* The projection of the job over the window fails: the schedule is not
\* projectable, the expression does not parse, or the evaluator throws on a
\* call the projection makes.
FailsIn(job, startAtMs, endAtMs) ==
    \/ Unprojectable(job)
    \/ ~CronPattern(getCronExpr(job.schedule)).valid
    \/ /\ evalFault.mode = "throw"
       /\ evalFault.expr = getCronExpr(job.schedule)
       /\ Len(LoopTrace(evalFault, job, startAtMs, endAtMs).asked) >= evalFault.at

\* The jobs of the list whose projection over the window does not fail.
HealthyIn(jobList, startAtMs, endAtMs) ==
    SelectSeq(jobList, LAMBDA job : ~FailsIn(job, startAtMs, endAtMs))

ItemJobs(items) == { items[k].job : k \in 1..Len(items) }

\* C11: the agenda and the week are what they would be had the jobs whose
\* projection fails (schedule not of kind "cron", empty or malformed
\* expression, evaluator that throws) not been in the list: the other jobs
\* contribute the same instances, and a failing job contributes none.
C11_FailureIsolated ==
    /\ agenda = AgendaAt(HealthyIn(filteredJobs, agenda.nowMs, AgendaEndMs), agenda.nowMs)
    /\ week = WeekAt(HealthyIn(filteredJobs, week.weekStartMs, WeekEndMs),
                     week.nowMs, WEEK_STARTS_ON)
    /\ \A j \in 1..Len(filteredJobs) :
          /\ FailsIn(filteredJobs[j], agenda.nowMs, AgendaEndMs)
                => filteredJobs[j] \notin ItemJobs(agenda.items)
          /\ FailsIn(filteredJobs[j], week.weekStartMs, WeekEndMs)
                => filteredJobs[j] \notin ItemJobs(week.items)

\* C11 witness: the list holds a job whose evaluator threw after two runs had
\* been collected, a job with a malformed expression and a job of another
\* kind, and the agenda and the week show instances of the other jobs.
C11_Witness ==
    /\ evalFault = ThirdCallThrows
    /\ {JobThrows, JobBad, JobEvery, JobDaily} \subseteq Range(filteredJobs)
    /\ Len(LoopTrace(evalFault, JobThrows, agenda.nowMs, AgendaEndMs).runs) = 2
    /\ Len(LoopTrace(evalFault, JobThrows, week.weekStartMs, WeekEndMs).runs) = 2
    /\ JobDaily \in ItemJobs(agenda.items) /\ JobDaily \in ItemJobs(week.items)

\* The groups of the agenda that hold the item.
GroupsHolding(item) ==
    { g \in 1..Len(agenda.groups) : item \in Range(agenda.groups[g].items) }

\* C13: the agenda's items are sorted by fire instant, ties by job name
\* ascending; its day groups are in ascending order of date, none is empty,
\* every retained item is in exactly one group, the one keyed by the item's
\* calendar date in the display zone, and the items of a group are in the
\* order of the merged list.
C13_SortedAndGrouped ==
    /\ \A k \in 1..(Len(agenda.items) - 1) :
          \/ agenda.items[k].runAtMs < agenda.items[k + 1].runAtMs
          \/ /\ agenda.items[k].runAtMs = agenda.items[k + 1].runAtMs
             /\ localeCompare(agenda.items[k].job.name, agenda.items[k + 1].job.name) <= 0
    /\ \A g \in 1..(Len(agenda.groups) - 1) :
          KeyLess(agenda.groups[g].key, agenda.groups[g + 1].key)
    /\ \A g \in 1..Len(agenda.groups) :
          /\ agenda.groups[g].items # <<>>
          /\ agenda.groups[g].items
                = SelectSeq(agenda.items, LAMBDA item : item \in Range(agenda.groups[g].items))
    /\ \A k \in 1..Len(agenda.items) :
          /\ Cardinality(GroupsHolding(agenda.items[k])) = 1
          /\ \A g \in GroupsHolding(agenda.items[k]) :
                agenda.groups[g].key = dateKey(agenda.items[k].runAtMs, "")

\* C13 witness: the agenda has several day groups, in a local zone that is
\* not UTC, and two jobs of different names run at the same instant.
C13_Witness ==
    /\ Len(agenda.groups) >= 3
    /\ localZone # FixedZone(0)
    /\ \E k \in 1..(Len(agenda.items) - 1) :
          /\ agenda.items[k].runAtMs = agenda.items[k + 1].runAtMs
          /\ localeCompare(agenda.items[k].job.name, agenda.items[k + 1].job.name) < 0

\* The week start is local midnight of the most recent day, at or before
\* now's local day, whose weekday is the first day of the week.
WeekStartIsMidnightOfFirstDay ==
    /\ WallOf(localZone, out.weekStartMs) % DAY = 0
    /\ WeekdayOfWall(WallOf(localZone, out.weekStartMs)) = probe.weekStartsOn
    /\ LocalDayNumber(out.weekStartMs, localZone) <= LocalDayNumber(probe.nowMs, localZone)
    /\ LocalDayNumber(out.weekStartMs, localZone) > LocalDayNumber(probe.nowMs, localZone) - 7

\* C14: for every now and a week starting on Sunday or on Monday, the week
\* start is local midnight of the most recent day with that weekday at or
\* before now's local day; so it is not after now, and now lies in the
\* projected window [weekStart, weekStart + 7 days).
C14_NowInsideWeek ==
    out.done =>
        /\ WeekStartIsMidnightOfFirstDay
        /\ out.weekStartMs <= probe.nowMs
        /\ probe.nowMs < out.weekStartMs + 7 * DAY

\* The objects handed to the builders, and the results held, agree with
\* the builders taken as functions of the list and the clock.
RoundAgrees ==
    /\ agenda = AgendaAt(filteredJobs, clock)
    /\ week = WeekAt(filteredJobs, clock, WEEK_STARTS_ON)
    /\ out.runs = upcomingRunsForJob(filteredJobs[probe.index],
                                     probe.startAtMs, probe.endAtMs).runs

\* C15: once the projector, the agenda builder and the week builder have
\* returned, every result of a second round of calls on the same list, the
\* same window and the same reading of the clock is the result the first
\* round gave; the second round runs in the memory the first round left.
C15_SameArgumentsSameOutput ==
    [][heap.returned => (out' = out /\ agenda' = agenda /\ week' = week)]_vars

\* C15 witness: both rounds were made, they returned runs, agenda items and
\* week items, and the first round left a cursor and item objects behind.
C15_Witness ==
    /\ phase = "twice"
    /\ Len(out.runs) > 0 /\ agenda.total > 0 /\ week.total > 0
    /\ heap.cursor # <<>> /\ Len(heap.item) > agenda.total + week.total
    /\ RoundAgrees

\* C16: after any sequence of job list updates, filter changes, view
\* switches and advances of the clock, the agenda and the week held are the
\* projection of the current filtered list at the time of the latest of
\* these events (the agenda's reading of the clock being at most a read
\* delay earlier than the week's).
C16_DerivedAreCurrent ==
    /\ week = WeekAt(filteredJobs, clock, WEEK_STARTS_ON)
    /\ \E delay \in Delays : agenda = AgendaAt(filteredJobs, clock - delay)

\* C17: the agenda's window start and the week's cutoff are the same reading
\* of the clock.
C17_SameNow == agenda.nowMs = week.nowMs

\* C18: no statement of the projector, of the agenda builder or of the week
\* builder changes the array of jobs handed to it (same jobs, same order), a
\* job record, or an item object made before the statement; item objects
\* are only added.
C18_ProjectionReadOnly ==
    [][/\ heap'.list = heap.list
       /\ heap'.job = heap.job
       /\ Len(heap'.item) >= Len(heap.item)
       /\ \A id \in 1..Len(heap.item) : heap'.item[id] = heap.item[id]]_vars

\* C18 witness: both rounds were made; item objects were made for a job
\* without an agent and for a disabled job, the sort moved objects in the
\* array, and the agenda's groups and the week's slots hold instances.
C18_Witness ==
    /\ phase = "twice"
    /\ \E id \in 1..Len(heap.item) : heap.job[heap.item[id].job].agentId = <<>>
    /\ \E id \in 1..Len(heap.item) : ~heap.job[heap.item[id].job].enabled
    /\ \E k \in 1..(Len(heap.items) - 1) : heap.items[k] > heap.items[k + 1]
    /\ GroupedItems # {} /\ SlotItems # {}

\* The job fires at an instant not earlier than the week's now and before
\* the week's end.
FiresLaterThisWeek(job) ==
    FireInstantsIn(getCronExpr(job.schedule), getCronTz(job.schedule),
                   Max(week.nowMs - 1, week.weekStartMs), WeekEndMs) # {}

\* C20: when the week's total does not exceed the global cap, every job whose
\* projection does not fail and that fires at some instant t with
\* now <= t < weekStart + 7 days has an instance in some slot of the week.
C20_UpcomingCovered ==
    week.total <= MAX_AGENDA_ITEMS_TOTAL =>
        \A j \in 1..Len(filteredJobs) :
            (/\ ~FailsIn(filteredJobs[j], week.weekStartMs, WeekEndMs)
             /\ FiresLaterThisWeek(filteredJobs[j]))
                => filteredJobs[j] \in { item.job : item \in SlotItems }

\* The slots of the week that hold the item.
SlotsHolding(item) ==
    { d \in 1..Len(week.days) : item \in Range(week.days[d].items) }

\* How many items slot d of the week holds.
SlotSize(d) == Len(week.days[d].items)

\* C21: every instance the week retains after the filter on now and the
\* global cap is in exactly one of the 7 slots, and the slots' item counts
\* add up to the week's shown count.
C21_WeekConservation ==
    /\ \A k \in 1..Len(week.items) : Cardinality(SlotsHolding(week.items[k])) = 1
    /\ SlotSize(1) + SlotSize(2) + SlotSize(3) + SlotSize(4)
          + SlotSize(5) + SlotSize(6) + SlotSize(7) = week.shown

\* The calendar days, in the job's zone, on which the probed job fires
\* inside the probed window.
ProbeFireDays == { dateKey(t, ProbeTz) : t \in ProbeFires }

\* The first n of the days.
FirstDays(days, n) == { d \in days : Cardinality({ e \in days : KeyLess(e, d) }) < n }

\* C22: for a noisy job the returned instants have one on each of the first
\* min(7, D) calendar days of the job's zone on which the job fires inside
\* the window, D being the number of such days.
C22_NoisyCoversDays ==
    (out.done /\ ProbeNoisy) =>
        FirstDays(ProbeFireDays, MAX_RUNS_PER_NOISY_JOB)
            \subseteq { dateKey(out.runs[k], ProbeTz) : k \in 1..Len(out.runs) }

\* The projection of the job over the window reduced it to one run per day
\* of the job's zone.
NoisyCappedIn(job, startAtMs, endAtMs) ==
    /\ ~FailsIn(job, startAtMs, endAtMs)
    /\ Len(LoopTrace(evalFault, job, startAtMs, endAtMs).runs) > MAX_RUNS_PER_JOB
    /\ IsNoisy(LoopTrace(evalFault, job, startAtMs, endAtMs).runs)

\* How many of the items are instances of the job.
TimesIn(items, job) == Cardinality({ k \in 1..Len(items) : items[k].job = job })

\* C23: a job that was reduced to one run per day has at most one instance
\* in any day group of the agenda and in any slot of the week, the groups
\* and slots being keyed by the local calendar date.
C23_NoisyOncePerLocalDay ==
    \A j \in 1..Len(filteredJobs) :
        /\ NoisyCappedIn(filteredJobs[j], agenda.nowMs, AgendaEndMs) =>
              \A g \in 1..Len(agenda.groups) :
                  TimesIn(agenda.groups[g].items, filteredJobs[j]) <= 1
        /\ NoisyCappedIn(filteredJobs[j], week.weekStartMs, WeekEndMs) =>
              \A d \in 1..Len(week.days) :
                  TimesIn(week.days[d].items, filteredJobs[j]) <= 1

\* The text holds the lower-case needle at some position, letter case in
\* the text aside.
HoldsIgnoringCase(text, needle) ==
    \E i \in 0..(Len(text) - Len(needle)) :
        \A k \in 1..Len(needle) : LowerChar(text[i + k]) = needle[k]

\* C24: every instance in the agenda and in the week is of a job of the list
\* whose name or agent id holds the trimmed, lower-cased query (or the query
\* is empty after trimming) and, when "Enabled only" is set, that is enabled.
C24_OnlyFilteredJobsShown ==
    \A job \in DisplayedJobs :
        /\ job \in Range(jobs)
        /\ \/ toLowerCase(trim(query)) = <<>>
           \/ HoldsIgnoringCase(job.name, toLowerCase(trim(query)))
           \/ HoldsIgnoringCase(job.agentId, toLowerCase(trim(query)))
        /\ enabledOnly => job.enabled

\* C24 witness: with a query and "Enabled only" set, the list holds a
\* disabled job that matches the query and a job that does not match it,
\* both with a cron schedule, and the agenda and the week show instances of
\* a job that passes.
C24_Witness ==
    /\ trim(query) # <<>> /\ enabledOnly
    /\ {JobNoisy, JobEight, JobWeekday} \subseteq Range(jobs)
    /\ JobWeekday \in DisplayedJobs
    /\ GroupedItems # {} /\ SlotItems # {}

====
